---------------------------- MODULE Spec2Model ----------------------------
(***************************************************************************)
(* A model of vfs2.py, the VFS2 archive codec: the primitive and record    *)
(* codecs, read_vfs / write_vfs, build_path, decompress (unpack) and       *)
(* compress (repack).                                                      *)
(*                                                                         *)
(* A byte stream is a sequence of numbers in 0..255.  A name (an ASCII     *)
(* string) is the sequence of its character codes, and a filesystem path   *)
(* is the sequence of its components.  Python exceptions are outcomes:     *)
(* the err field of a result names the exception raised, "ok" when none.   *)
(***************************************************************************)
EXTENDS Integers, Sequences, FiniteSets, TLC

(***************************************************************************)
(* Bounds of the model.                                                    *)
(***************************************************************************)
\* Most file records of an input archive.
MaxFiles == 2
\* Most directory records of an input archive (a chain root -> ... ).
MaxDirs == 2
\* Most directory records of a table handed to build_path on its own.
MaxPathDirs == 3
\* Longest table a count field may announce before the model gives the run up
\* (the read loops are unbounded in the code: range(read_int(vfs))).
MaxCount == 3
\* Stand-in for the interpreter's recursion limit (sys.getrecursionlimit()).
RecursionLimit == 8

Min(a, b) == IF a < b THEN a ELSE b

(***************************************************************************)
(* Byte strings.                                                           *)
(***************************************************************************)
\* b[lo:hi] of Python for 0 <= lo: the bytes at 0-based positions lo..hi-1,
\* cut to what exists.
Slice(b, lo, hi) == SubSeq(b, lo + 1, Min(hi, Len(b)))

\* int.from_bytes(b, 'little', signed=signed) for len(b) <= 4.  A value of
\* 2^31 or more is not representable here and saturates at 2^31 - 1.
FromBytes(b, signed) ==
  LET n == Len(b)
      B(i) == IF i <= n THEN b[i] ELSE 0
      low == B(1) + 256 * B(2) + 65536 * B(3)
      top == B(4)
  IN  IF n = 0 THEN 0
      ELSE IF signed /\ b[n] >= 128
        THEN CASE n = 1 -> B(1) - 256
               [] n = 2 -> B(1) + 256 * B(2) - 65536
               [] n = 3 -> low - 16777216
               [] OTHER -> low + (top - 256) * 16777216
      ELSE IF top >= 128 THEN 2147483647
      ELSE low + top * 16777216

\* value.to_bytes(4, 'little', signed=signed); two's complement when negative.
ToBytes(v) ==
  << v % 256, (v \div 256) % 256, (v \div 65536) % 256, (v \div 16777216) % 256 >>

\* s.encode('ascii') / b.decode('ascii') keep the codes; decoding fails on a
\* byte of 128 or more.
IsAscii(b) == \A i \in 1..Len(b) : b[i] < 128

\* b'VFS2'
Magic == << 86, 70, 83, 50 >>

(***************************************************************************)
(* The stream cursor: pos is vfs.tell(), reads counts the vfs.read calls,  *)
(* short records that some read got fewer bytes than it asked for.         *)
(*                                                                         *)
(* Throughout, a value computed by one statement and used by several later *)
(* ones is handed on as an operator argument: F(x) == G(x, step(x)) reads  *)
(* "compute step(x), then go on as G".                                     *)
(***************************************************************************)
Cursor0 == [pos |-> 0, reads |-> 0, short |-> FALSE]

\* vfs.read(n) of a buffered binary file: at most n bytes for n >= 0, all that
\* is left for n = -1 (a smaller n raises ValueError, see ReadVfsBlob).
StreamRead(s, cur, n) ==
  IF n = -1 \/ n >= Len(s) - cur.pos THEN SubSeq(s, cur.pos + 1, Len(s))
  ELSE SubSeq(s, cur.pos + 1, cur.pos + n)

\* The cursor after vfs.read(n) returned `got`.
AdvanceBy(cur, got, n) ==
  [pos |-> cur.pos + Len(got), reads |-> cur.reads + 1,
   short |-> cur.short \/ Len(got) < n]
Advance(s, cur, n) == AdvanceBy(cur, StreamRead(s, cur, n), n)

\* read_magic
read_magic(s, cur) ==
  [v |-> StreamRead(s, cur, 4) = Magic, cur |-> Advance(s, cur, 4)]

\* read_int: a short read at the end of the stream is decoded as it is.
read_int(s, cur, signed) ==
  [v |-> FromBytes(StreamRead(s, cur, 4), signed), cur |-> Advance(s, cur, 4)]

\* read_str, size being its read_int.
ReadStrBody(raw, cur) ==
  [v |-> raw, err |-> IF IsAscii(raw) THEN "ok" ELSE "UnicodeDecodeError",
   cur |-> cur]
ReadStrOf(s, size) ==
  ReadStrBody(StreamRead(s, size.cur, size.v), Advance(s, size.cur, size.v))
read_str(s, cur) == ReadStrOf(s, read_int(s, cur, FALSE))

\* write_int, write_str
write_int(v) == ToBytes(v)
write_str(name) == write_int(Len(name)) \o name

(***************************************************************************)
(* Record codec.                                                           *)
(***************************************************************************)
\* VfsDir
VfsDir(hash, id, parent, from_dir, from_file) ==
  [hash |-> hash, id |-> id, parent |-> parent, from_dir |-> from_dir,
   from_file |-> from_file]

\* VfsFile
VfsFile(hash, id, type, dir, offset, size) ==
  [hash |-> hash, id |-> id, type |-> type, dir |-> dir, offset |-> offset,
   size |-> size]

\* The read_int calls of a record in a row: signs[k] is the k-th call's signed
\* flag, got the values read so far.
RECURSIVE ReadInts(_, _, _, _)
ReadIntsNext(s, signs, got, x) == ReadInts(s, x.cur, Tail(signs), Append(got, x.v))
ReadInts(s, cur, signs, got) ==
  IF signs = << >> THEN [v |-> got, cur |-> cur]
  ELSE ReadIntsNext(s, signs, got, read_int(s, cur, Head(signs)))

\* read_dir: hash, id unsigned; parent, from_dir signed; from_file unsigned.
DirOf(x) == [v |-> VfsDir(x.v[1], x.v[2], x.v[3], x.v[4], x.v[5]), cur |-> x.cur]
read_dir(s, cur) == DirOf(ReadInts(s, cur, << FALSE, FALSE, TRUE, TRUE, FALSE >>, << >>))

\* write_dir
write_dir(d) ==
  write_int(d.hash) \o write_int(d.id) \o write_int(d.parent)
    \o write_int(d.from_dir) \o write_int(d.from_file)

\* read_file: six unsigned fields.
FileOf(x) ==
  [v |-> VfsFile(x.v[1], x.v[2], x.v[3], x.v[4], x.v[5], x.v[6]), cur |-> x.cur]
read_file(s, cur) ==
  FileOf(ReadInts(s, cur, << FALSE, FALSE, FALSE, FALSE, FALSE, FALSE >>, << >>))

\* write_file
write_file(f) ==
  write_int(f.hash) \o write_int(f.id) \o write_int(f.type)
    \o write_int(f.dir) \o write_int(f.offset) \o write_int(f.size)

(***************************************************************************)
(* Container codec.                                                        *)
(***************************************************************************)
\* for _ in range(n): dirs.append(read_dir(vfs))
RECURSIVE ReadDirs(_, _, _, _)
ReadDirsNext(s, n, got, d) == ReadDirs(s, d.cur, n - 1, Append(got, d.v))
ReadDirs(s, cur, n, got) ==
  IF n <= 0 THEN [v |-> got, err |-> "ok", cur |-> cur]
  ELSE ReadDirsNext(s, n, got, read_dir(s, cur))

\* for _ in range(n): files.append(read_file(vfs))
RECURSIVE ReadFiles(_, _, _, _)
ReadFilesNext(s, n, got, f) == ReadFiles(s, f.cur, n - 1, Append(got, f.v))
ReadFiles(s, cur, n, got) ==
  IF n <= 0 THEN [v |-> got, err |-> "ok", cur |-> cur]
  ELSE ReadFilesNext(s, n, got, read_file(s, cur))

\* for i in range(n): names.append(read_str(vfs)); the first name that does
\* not decode ends the loop with its error.
RECURSIVE ReadNames(_, _, _, _)
ReadNamesNext(s, n, got, x) ==
  IF x.err # "ok" THEN [v |-> << >>, err |-> x.err, cur |-> x.cur]
  ELSE ReadNames(s, x.cur, n - 1, Append(got, x.v))
ReadNames(s, cur, n, got) ==
  IF n <= 0 THEN [v |-> got, err |-> "ok", cur |-> cur]
  ELSE ReadNamesNext(s, n, got, read_str(s, cur))

\* What read_vfs leaves when it raises: no tables.
Raised(e, cur) ==
  [err |-> e, dirs |-> << >>, files |-> << >>, blob |-> << >>,
   fnames |-> << >>, dnames |-> << >>, cur |-> cur]

\* A table's loop once its count n is read.  "Unbounded" is the model giving
\* up on a count above MaxCount.
CountedDirs(s, n) ==
  IF n.v > MaxCount THEN [v |-> << >>, err |-> "Unbounded", cur |-> n.cur]
  ELSE ReadDirs(s, n.cur, n.v, << >>)
CountedFiles(s, n) ==
  IF n.v > MaxCount THEN [v |-> << >>, err |-> "Unbounded", cur |-> n.cur]
  ELSE ReadFiles(s, n.cur, n.v, << >>)
CountedNames(s, n) ==
  IF n.v > MaxCount THEN [v |-> << >>, err |-> "Unbounded", cur |-> n.cur]
  ELSE ReadNames(s, n.cur, n.v, << >>)

\* read_vfs, lines 98-101: dnames is the directory-name table as read.
ReadVfsEnd(dirs, files, blob, fnames, dnames) ==
  IF dnames.err # "ok" THEN Raised(dnames.err, dnames.cur)
  ELSE [err |-> "ok", dirs |-> dirs, files |-> files, blob |-> blob,
        fnames |-> fnames, dnames |-> dnames.v, cur |-> dnames.cur]

\* read_vfs from line 96 on: fnames is the file-name table as read.
ReadVfsNames(s, dirs, files, blob, fnames) ==
  IF fnames.err # "ok" THEN Raised(fnames.err, fnames.cur)
  ELSE ReadVfsEnd(dirs, files, blob, fnames.v,
                  CountedNames(s, read_int(s, fnames.cur, FALSE)))

\* read_vfs line 95: blob = vfs.read(read_int(vfs) - vfs.tell()), bend being
\* the read_int.  read(-1) reads to the end of the file, a smaller length
\* raises ValueError.
ReadVfsBlob(s, dirs, files, bend) ==
  IF bend.v - bend.cur.pos < -1 THEN Raised("ValueError", bend.cur)
  ELSE ReadVfsNames(s, dirs, files,
         StreamRead(s, bend.cur, bend.v - bend.cur.pos),
         CountedNames(s, read_int(s, Advance(s, bend.cur, bend.v - bend.cur.pos), FALSE)))

\* read_vfs from line 93 on, and from line 91 on.
ReadVfsFiles(s, dirs, files) ==
  IF files.err # "ok" THEN Raised(files.err, files.cur)
  ELSE ReadVfsBlob(s, dirs, files.v, read_int(s, files.cur, FALSE))
ReadVfsDirs(s, dirs) ==
  IF dirs.err # "ok" THEN Raised(dirs.err, dirs.cur)
  ELSE ReadVfsFiles(s, dirs.v, CountedFiles(s, read_int(s, dirs.cur, FALSE)))

\* A reader that takes any four bytes for the magic.
ReadVfsAnyMagic(s, magic) ==
  ReadVfsDirs(s, CountedDirs(s, read_int(s, magic.cur, FALSE)))

\* read_vfs, magic being its read_magic.
ReadVfsMagic(s, magic) ==
  IF ~magic.v THEN Raised("BadMagic", magic.cur)
  ELSE ReadVfsDirs(s, CountedDirs(s, read_int(s, magic.cur, FALSE)))
read_vfs(s) == ReadVfsMagic(s, read_magic(s, Cursor0))

\* The concatenation of the encodings of a table's entries.
RECURSIVE Concat(_)
Concat(parts) ==
  IF parts = << >> THEN << >> ELSE Head(parts) \o Concat(Tail(parts))

\* A writer that prefixes each name table with its own length.
WriteVfsOwnCounts(head, ndirs, nfiles, blob, fnames, dnames) ==
  head
    \o write_int(Len(blob) + Len(head) + 4) \o blob
    \o write_int(Len(fnames)) \o Concat([i \in 1..Len(fnames) |-> write_str(fnames[i])])
    \o write_int(Len(dnames)) \o Concat([i \in 1..Len(dnames) |-> write_str(dnames[i])])

\* write_vfs from line 111 on, head being the bytes written so far: the two
\* name tables are prefixed by len(files) and len(dirs).
WriteVfsBlob(head, ndirs, nfiles, blob, fnames, dnames) ==
  head
    \o write_int(Len(blob) + Len(head) + 4) \o blob
    \o write_int(nfiles) \o Concat([i \in 1..Len(fnames) |-> write_str(fnames[i])])
    \o write_int(ndirs) \o Concat([i \in 1..Len(dnames) |-> write_str(dnames[i])])

\* write_vfs
write_vfs(dirs, files, blob, fnames, dnames) ==
  WriteVfsBlob(
    Magic
      \o write_int(Len(dirs)) \o Concat([i \in 1..Len(dirs) |-> write_dir(dirs[i])])
      \o write_int(Len(files)) \o Concat([i \in 1..Len(files) |-> write_file(files[i])]),
    Len(dirs), Len(files), blob, fnames, dnames)

(***************************************************************************)
(* Path resolver.                                                          *)
(***************************************************************************)
\* Python's list[i]: i in -len..len-1 is an element (a negative i counts from
\* the end), any other i raises IndexError.
InList(list, i) == -Len(list) <= i /\ i < Len(list)
At(list, i) == list[IF i < 0 THEN Len(list) + i + 1 ELSE i + 1]

\* Path(name) and path / name for a name that is empty or a single component:
\* pathlib drops an empty component.  (Names holding '/', '.', '..' or NUL
\* are outside the names this model draws.)
PathJoin(path, name) == IF name = << >> THEN path ELSE Append(path, name)

\* What build_path returns or raises.
PathError(e) == [err |-> e, path |-> << >>, hops |-> 0]

\* A resolver that joins the parent's path behind the directory's name.
JoinNameFirst(up, dnames, dir) ==
  IF up.err # "ok" THEN up
  ELSE IF ~InList(dnames, dir.id) THEN PathError("IndexError")
  ELSE [err |-> "ok", path |-> << At(dnames, dir.id) >> \o up.path,
        hops |-> up.hops + 1]

\* build_path's second return: up is what the recursive call on the parent
\* gave (the left operand of /, evaluated before dnames[dir.id]).
JoinName(up, dnames, dir) ==
  IF up.err # "ok" THEN up
  ELSE IF ~InList(dnames, dir.id) THEN PathError("IndexError")
  ELSE [err |-> "ok", path |-> PathJoin(up.path, At(dnames, dir.id)),
        hops |-> up.hops + 1]

\* build_path at recursion depth `depth`; hops counts the parent links
\* followed.
RECURSIVE BuildPathAt(_, _, _, _)
BuildPathAt(dirs, dnames, dir, depth) ==
  IF depth > RecursionLimit THEN PathError("RecursionError")
  ELSE IF dir.parent = -1
    THEN IF InList(dnames, dir.id)
           THEN [err |-> "ok", path |-> PathJoin(<< >>, At(dnames, dir.id)), hops |-> 0]
           ELSE PathError("IndexError")
  ELSE IF ~InList(dirs, dir.parent) THEN PathError("IndexError")
  ELSE JoinName(BuildPathAt(dirs, dnames, At(dirs, dir.parent), depth + 1), dnames, dir)

\* build_path
build_path(dirs, dnames, dir) == BuildPathAt(dirs, dnames, dir, 1)

(***************************************************************************)
(* zlib, reduced to what the codec relies on: compress is injective, its   *)
(* output is self-delimiting and checksummed, decompress raises on a       *)
(* stream that is cut short or does not check and ignores bytes after the  *)
(* end of the stream.  bufsize only sizes decompress's first buffer.       *)
(* A stream here: header byte, length, the bytes, checksum.                *)
(***************************************************************************)
RECURSIVE ByteSum(_)
ByteSum(b) == IF b = << >> THEN 0 ELSE Head(b) + ByteSum(Tail(b))

Adler(b) == (1 + ByteSum(b)) % 251

\* zlib.compress(data, VFS_COMPRESSION_LEVEL)
zcompress(data) == << 120, Len(data) >> \o data \o << Adler(data) >>

\* zlib.decompress(z, bufsize=bufsize)
zdecompress(z, bufsize) ==
  IF /\ Len(z) >= 3
     /\ z[1] = 120
     /\ Len(z) >= z[2] + 3
     /\ z[z[2] + 3] = Adler(SubSeq(z, 3, z[2] + 2))
  THEN [err |-> "ok", data |-> SubSeq(z, 3, z[2] + 2)]
  ELSE [err |-> "zlib.error", data |-> << >>]

(***************************************************************************)
(* The directory tree under a prefix: files holds a pair <<path, bytes>>   *)
(* for each regular file, dirs the paths of the directories.               *)
(***************************************************************************)
EmptyTree == [files |-> {}, dirs |-> {}]

FilePaths(tree) == {f[1] : f \in tree.files}
FileData(tree, path) == (CHOOSE f \in tree.files : f[1] = path)[2]
Prefixes(path) == {SubSeq(path, 1, k) : k \in 1..Len(path)}

\* prefix.joinpath(path).mkdir(parents=True, exist_ok=True): raises
\* FileExistsError / NotADirectoryError (one outcome here) when the path or
\* one of its parents is a regular file.
Mkdir(tree, path) ==
  IF \E q \in Prefixes(path) : q \in FilePaths(tree)
    THEN [err |-> "FileExistsError", tree |-> tree]
    ELSE [err |-> "ok", tree |-> [tree EXCEPT !.dirs = @ \cup Prefixes(path)]]

\* prefix.joinpath(path).write_bytes(data), the parent directory existing;
\* the prefix itself (the empty path) is a directory.
WriteBytes(tree, path, data) ==
  IF path = << >> \/ path \in tree.dirs
    THEN [err |-> "IsADirectoryError", tree |-> tree]
    ELSE [err |-> "ok",
          tree |-> [tree EXCEPT !.files =
                      {f \in @ : f[1] # path} \cup {<< path, data >>}]]

\* prefix.joinpath(path).read_bytes()
ReadBytes(tree, path) ==
  IF path \in FilePaths(tree) THEN [err |-> "ok", data |-> FileData(tree, path)]
  ELSE IF path = << >> \/ path \in tree.dirs
    THEN [err |-> "IsADirectoryError", data |-> << >>]
  ELSE [err |-> "FileNotFoundError", data |-> << >>]

(***************************************************************************)
(* Unpack engine.                                                          *)
(***************************************************************************)
\* blob[offset:offset + size]
BlobSlice(blob, offset, size) ==
  IF offset >= Len(blob) THEN << >>
  ELSE IF size >= Len(blob) - offset THEN SubSeq(blob, offset + 1, Len(blob))
  ELSE SubSeq(blob, offset + 1, offset + size)

\* What one pass of decompress's loop leaves: data is what it decoded (when it
\* got that far), wrote whether it wrote the file.
Pass(e, tree, data, wrote) == [err |-> e, tree |-> tree, data |-> data, wrote |-> wrote]

\* Line 136, made being what mkdir did: fnames[file.id], then write_bytes.
UnpackWritten(data, put) == Pass(put.err, put.tree, data, put.err = "ok")
UnpackPut(r, file, path, data, made) ==
  IF made.err # "ok" THEN Pass(made.err, made.tree, data, FALSE)
  ELSE IF ~InList(r.fnames, file.id) THEN Pass("IndexError", made.tree, data, FALSE)
  ELSE UnpackWritten(data,
         WriteBytes(made.tree, PathJoin(path, At(r.fnames, file.id)), data))

\* Line 135: mkdir.
UnpackWrite(r, tree, file, path, data) ==
  UnpackPut(r, file, path, data, Mkdir(tree, path))

\* Lines 132-134: a nonzero type is decompressed, z being what zdecompress
\* gave for data[4:] with bufsize = data[0:4].
UnpackZ(r, tree, file, path, z) ==
  IF z.err # "ok" THEN Pass(z.err, tree, << >>, FALSE)
  ELSE UnpackWrite(r, tree, file, path, z.data)
UnpackData(r, tree, file, path, data) ==
  IF file.type # 0
    THEN UnpackZ(r, tree, file, path,
           zdecompress(SubSeq(data, 5, Len(data)), FromBytes(Slice(data, 0, 4), FALSE)))
    ELSE UnpackWrite(r, tree, file, path, data)

\* Line 131, path being what build_path gave.
UnpackAt(r, tree, file, path) ==
  IF path.err # "ok" THEN Pass(path.err, tree, << >>, FALSE)
  ELSE UnpackData(r, tree, file, path.path,
                  BlobSlice(r.blob, file.offset, file.size))

\* One pass of decompress's loop body (lines 130-136) for `file`, on the tree
\* so far.
UnpackFile(r, tree, file) ==
  IF ~InList(r.dirs, file.dir) THEN Pass("IndexError", tree, << >>, FALSE)
  ELSE UnpackAt(r, tree, file, build_path(r.dirs, r.dnames, At(r.dirs, file.dir)))

\* for file in files, from the i-th on: the first record that raises ends the
\* run, what was written stays.  out[k] is what pass k decoded, at the
\* position of the record that raised (0 when none did).
RECURSIVE UnpackFrom(_, _, _, _)
UnpackNext(r, i, out, step) ==
  IF step.err # "ok"
    THEN [err |-> step.err, tree |-> step.tree, at |-> i, out |-> out]
    ELSE UnpackFrom(r, step.tree, i + 1, Append(out, step.data))
UnpackFrom(r, tree, i, out) ==
  IF i > Len(r.files) THEN [err |-> "ok", tree |-> tree, at |-> 0, out |-> out]
  ELSE UnpackNext(r, i, out, UnpackFile(r, tree, r.files[i]))

\* decompress(vfs, prefix): read_vfs, then the loop.
UnpackDone(r, run) ==
  [err |-> run.err, read |-> r, tree |-> run.tree, at |-> run.at, out |-> run.out]
UnpackRead(tree, r) ==
  IF r.err # "ok"
    THEN [err |-> r.err, read |-> r, tree |-> tree, at |-> 0, out |-> << >>]
    ELSE UnpackDone(r, UnpackFrom(r, tree, 1, << >>))
decompress(vfs, tree) == UnpackRead(tree, read_vfs(vfs))

(***************************************************************************)
(* Pack engine.                                                            *)
(***************************************************************************)
\* A packer that takes the records in table order.
TableOrder(files) == [k \in 1..Len(files) |-> k]

\* sorted(ofiles, key=lambda f: f.id), as table positions: the sort is stable.
Before(files, j, i) ==
  files[j].id < files[i].id \/ (files[j].id = files[i].id /\ j < i)
IdOrder(files) ==
  [k \in 1..Len(files) |->
     CHOOSE i \in 1..Len(files) :
       Cardinality({j \in 1..Len(files) : Before(files, j, i)}) = k - 1]

\* A packer that stores the length of the compressed bytes.
StoredStreamLength(type, data) ==
  IF type = 2 THEN ToBytes(Len(zcompress(data))) \o zcompress(data) ELSE data

\* Lines 152-154: a type-2 record stores the length, then the compressed bytes.
Stored(type, data) ==
  IF type = 2 THEN ToBytes(Len(data)) \o zcompress(data) ELSE data

\* Lines 155-159, data being what the record stores: st holds ofiles, oblob
\* and offset so far.
PackStore(st, i, data) ==
  [err |-> "ok",
   files |-> [st.files EXCEPT ![i].size = Len(data), ![i].offset = st.offset],
   blob |-> st.blob \o data,
   offset |-> st.offset + Len(data)]

\* Line 151, src being what read_bytes gave.
PackRead(st, i, src) ==
  IF src.err # "ok" THEN [st EXCEPT !.err = src.err]
  ELSE PackStore(st, i, Stored(st.files[i].type, src.data))

\* Line 150 after build_path: ofnames[file.id].
PackAt(r, tree, st, i, dirpath) ==
  IF dirpath.err # "ok" THEN [st EXCEPT !.err = dirpath.err]
  ELSE IF ~InList(r.fnames, st.files[i].id) THEN [st EXCEPT !.err = "IndexError"]
  ELSE PackRead(st, i,
         ReadBytes(tree, PathJoin(dirpath.path, At(r.fnames, st.files[i].id))))

\* One pass of compress's loop body (lines 150-159) for the record at table
\* position i.
PackFile(r, tree, st, i) ==
  IF ~InList(r.dirs, st.files[i].dir) THEN [st EXCEPT !.err = "IndexError"]
  ELSE PackAt(r, tree, st, i,
         build_path(r.dirs, r.dnames, At(r.dirs, st.files[i].dir)))

\* The packing loop over order[k..].
RECURSIVE PackFrom(_, _, _, _, _)
PackNext(r, tree, order, k, step) ==
  IF step.err # "ok" THEN step ELSE PackFrom(r, tree, step, order, k + 1)
PackFrom(r, tree, st, order, k) ==
  IF k > Len(order) THEN st
  ELSE PackNext(r, tree, order, k, PackFile(r, tree, st, order[k]))

\* compress(ivfs, prefix, ovfs): vfs is the archive file after the run, left
\* as it was (`old`) when the run raises before write_vfs.
PackDone(r, old, st) ==
  IF st.err # "ok"
    THEN [err |-> st.err, read |-> r, files |-> st.files, blob |-> st.blob,
          vfs |-> old]
    ELSE [err |-> "ok", read |-> r, files |-> st.files, blob |-> st.blob,
          vfs |-> write_vfs(r.dirs, st.files, st.blob, r.fnames, r.dnames)]
PackTables(tree, old, r) ==
  IF r.err # "ok"
    THEN [err |-> r.err, read |-> r, files |-> << >>, blob |-> << >>, vfs |-> old]
    ELSE PackDone(r, old,
           PackFrom(r, tree,
                    [err |-> "ok", files |-> r.files, blob |-> << >>, offset |-> 0],
                    IdOrder(r.files), 1))
compress(ivfs, tree, old) == PackTables(tree, old, read_vfs(ivfs))

(***************************************************************************)
(* The program's state: the files the two commands work on.                *)
(*   python3 vfs2.py d ivfs tree ;  python3 vfs2.py c ivfs tree ovfs ;      *)
(*   python3 vfs2.py d ovfs tree2                                          *)
(***************************************************************************)
VARIABLES
  ivfs,      \* the bytes of the input archive
  tree,      \* the directory the input archive is unpacked into
  ovfs,      \* the bytes of the repacked archive (empty until written)
  tree2,     \* the directory the repacked archive is unpacked into
  pc,        \* "start", "unpacked", "packed", "done", "failed", or "path"
  edits,     \* how many files of tree were rewritten after the unpack
  unpacked,  \* what decompress(ivfs, tree) did
  packed,    \* what compress(ivfs, tree, ovfs) did
  checked,   \* what decompress(ovfs, tree2) did
  ptab,      \* a directory table and its names, for build_path on its own
  pres       \* what the last build_path call on ptab returned

vars == << ivfs, tree, ovfs, tree2, pc, edits, unpacked, packed, checked, ptab, pres >>

\* Most rewrites of an unpacked file before the repack.
MaxEdits == 1

NoRead == Raised("none", Cursor0)
NoUnpack == [cmd |-> "none", err |-> "none", read |-> NoRead, at |-> 0, out |-> << >>]
NoPack == [cmd |-> "none", err |-> "none", read |-> NoRead, files |-> << >>, blob |-> << >>]
NoTable == [dirs |-> << >>, dnames |-> << >>]
NoPath == [dir |-> 0, err |-> "none", path |-> << >>, hops |-> 0]

(***************************************************************************)
(* Input archives.                                                         *)
(***************************************************************************)
\* The record types drawn: 0 stored, 2 compressed, 1 a nonzero type that is
\* not 2.
FileTypes == {0, 1, 2}

\* The bytes a user may put into an unpacked file.
EditContents == {<< >>, << 7, 7, 7, 7, 7 >>}

\* The k-th name of a name table: 'a', 'b', ... for files, 'r', 's', ... for
\* directories.
FileName(k) == << 96 + k >>
DirName(k) == << 113 + k >>

\* The content of the k-th file of an input archive: k bytes.
Content(k) == [j \in 1..k |-> 10 * k + j]

\* A chain of n directories: the first is the root, each next one the child
\* of the one before.  Ids run against table positions.
ChainDirs(n) == [k \in 1..n |-> VfsDir(1000 + k, n - k, k - 2, -1, k)]

\* What an archive stores for a record: the bytes for type 0, otherwise the
\* length prefix (off by `skew`) and the compressed bytes.
Payload(type, data, skew) ==
  IF type = 0 THEN data ELSE ToBytes(Len(data) + skew) \o zcompress(data)

\* The tables of an archive of chain directories holding m files: file k has
\* type types[k], id ids[k], lies in directory (k-1) mod n and holds
\* Content(k); payloads are laid out in table order.
RECURSIVE LayOut(_, _, _, _, _, _)
LayOut(n, types, ids, skew, k, acc) ==
  IF k > Len(types) THEN acc
  ELSE LET data == Payload(types[k], Content(k), skew)
           file == VfsFile(2000 + k, ids[k], types[k], (k - 1) % n, Len(acc.blob), Len(data))
       IN  LayOut(n, types, ids, skew, k + 1,
                  [files |-> Append(acc.files, file), blob |-> acc.blob \o data])

Archive(n, types, ids, skew) ==
  LET laid == LayOut(n, types, ids, skew, 1, [files |-> << >>, blob |-> << >>])
  IN  write_vfs(ChainDirs(n), laid.files, laid.blob,
                [k \in 1..Len(types) |-> FileName(k)], [k \in 1..n |-> DirName(k)])

\* The ids of m records: in table order, against it, all the same, and
\* repeated out of order.
FileIds(m) ==
  {[k \in 1..m |-> k - 1], [k \in 1..m |-> m - k], [k \in 1..m |-> 0],
   [k \in 1..m |-> (m - k) % 2]}

\* What is drawn for an archive of m files: the types and ids of its records.
Shapes(m) == [types : [1..m -> FileTypes], ids : FileIds(m)]

\* The well-formed input archives of n directories and m files.
Archives(n, m) == {Archive(n, sh.types, sh.ids, 0) : sh \in Shapes(m)}

(***************************************************************************)
(* The commands.                                                           *)
(***************************************************************************)
Init ==
  /\ \E n \in 1..MaxDirs, m \in 1..MaxFiles : ivfs \in Archives(n, m)
  /\ tree = EmptyTree
  /\ ovfs = << >>
  /\ tree2 = EmptyTree
  /\ pc = "start"
  /\ edits = 0
  /\ unpacked = NoUnpack
  /\ packed = NoPack
  /\ checked = NoUnpack
  /\ ptab = NoTable
  /\ pres = NoPath

\* python3 vfs2.py d ivfs tree
Decompress ==
  /\ pc = "start"
  /\ \E res \in {decompress(ivfs, tree)} :
         /\ tree' = res.tree
         /\ unpacked' = [cmd |-> "d", err |-> res.err, read |-> res.read,
                         at |-> res.at, out |-> res.out]
         /\ pc' = IF res.err = "ok" THEN "unpacked" ELSE "failed"
  /\ UNCHANGED << ivfs, ovfs, tree2, edits, packed, checked, ptab, pres >>

\* The user rewrites one unpacked file before repacking.
EditFile ==
  /\ pc = "unpacked"
  /\ edits < MaxEdits
  /\ \E path \in FilePaths(tree), data \in EditContents :
       tree' = WriteBytes(tree, path, data).tree
  /\ edits' = edits + 1
  /\ UNCHANGED << ivfs, ovfs, tree2, pc, unpacked, packed, checked, ptab, pres >>

\* python3 vfs2.py c ivfs tree ovfs
Compress ==
  /\ pc = "unpacked"
  /\ \E res \in {compress(ivfs, tree, ovfs)} :
         /\ ovfs' = res.vfs
         /\ packed' = [cmd |-> "c", err |-> res.err, read |-> res.read,
                       files |-> res.files, blob |-> res.blob]
         /\ pc' = IF res.err = "ok" THEN "packed" ELSE "failed"
  /\ UNCHANGED << ivfs, tree, tree2, edits, unpacked, checked, ptab, pres >>

\* python3 vfs2.py d ovfs tree2
DecompressOut ==
  /\ pc = "packed"
  /\ \E res \in {decompress(ovfs, tree2)} :
         /\ tree2' = res.tree
         /\ checked' = [cmd |-> "d", err |-> res.err, read |-> res.read,
                        at |-> res.at, out |-> res.out]
         /\ pc' = IF res.err = "ok" THEN "done" ELSE "failed"
  /\ UNCHANGED << ivfs, tree, ovfs, edits, unpacked, packed, ptab, pres >>

Next == Decompress \/ EditFile \/ Compress \/ DecompressOut

Spec == Init /\ [][Next]_vars

(***************************************************************************)
(* Archives as a hex editor or another tool may leave them: read_vfs is    *)
(* handed whatever bytes the file holds.                                   *)
(***************************************************************************)
\* An archive laid out as write_vfs lays it out, with a free magic, the blob
\* end offset moved by `shift`, and free counts nf, nd before the name tables.
ForgeBlob(head, shift, blob, nf, fnames, nd, dnames) ==
  head
    \o write_int(Len(blob) + Len(head) + 4 + shift) \o blob
    \o write_int(nf) \o Concat([i \in 1..Len(fnames) |-> write_str(fnames[i])])
    \o write_int(nd) \o Concat([i \in 1..Len(dnames) |-> write_str(dnames[i])])
Forge(magic, dirs, files, shift, blob, nf, fnames, nd, dnames) ==
  ForgeBlob(
    magic
      \o write_int(Len(dirs)) \o Concat([i \in 1..Len(dirs) |-> write_dir(dirs[i])])
      \o write_int(Len(files)) \o Concat([i \in 1..Len(files) |-> write_file(files[i])]),
    shift, blob, nf, fnames, nd, dnames)

\* b'VFS1', b'vFS2': magics that are not b'VFS2'.
BadMagics == {<< 86, 70, 83, 49 >>, << 118, 70, 83, 50 >>}

\* Two stored files 'a' and 'b' of one root directory.
TwoFiles ==
  << VfsFile(2001, 0, 0, 0, 0, 1), VfsFile(2002, 1, 0, 0, 1, 2) >>
\* Two stored records that both name file 0.
SameFile ==
  << VfsFile(2001, 0, 0, 0, 0, 1), VfsFile(2002, 0, 0, 0, 1, 2) >>
TwoBlob == Content(1) \o Content(2)

\* write_vfs called with file_count = 2 and a single fnames entry (and no
\* directories, so that the name tables end the file).
CouplingExample ==
  write_vfs(<< >>, TwoFiles, TwoBlob, << FileName(1) >>, << >>)

\* An archive whose name-table counts are written independently of its record
\* tables: two file records, a name table of one entry that says so.
OwnCountExample ==
  Forge(Magic, ChainDirs(1), SameFile, 0, TwoBlob, 1, << FileName(1) >>,
        1, << DirName(1) >>)

\* One root directory holding one compressed file.
OneFile(skew) == Archive(1, << 2 >>, << 0 >>, skew)
OneFileForged(magic, shift) ==
  Forge(magic, ChainDirs(1),
        << VfsFile(2001, 0, 2, 0, 0, Len(Payload(2, Content(1), 0))) >>,
        shift, Payload(2, Content(1), 0), 1, << FileName(1) >>, 1, << DirName(1) >>)

\* The whole files: well-formed, a wrong length prefix, a wrong magic, a blob
\* end offset before the blob's start, and the two count examples.
WholeStreams ==
  {OneFile(0), OneFile(1), CouplingExample, OwnCountExample}
    \cup {OneFileForged(m, 0) : m \in BadMagics}
    \cup {OneFileForged(Magic, -Len(Payload(2, Content(1), 0)) - d) : d \in {1, 2}}

\* Each of them, and each cut short after any number of bytes.
Streams == UNION {{SubSeq(s, 1, k) : k \in 0..Len(s)} : s \in WholeStreams}

InitRead ==
  /\ ivfs \in Streams
  /\ tree = EmptyTree
  /\ ovfs = << >>
  /\ tree2 = EmptyTree
  /\ pc = "start"
  /\ edits = 0
  /\ unpacked = NoUnpack
  /\ packed = NoPack
  /\ checked = NoUnpack
  /\ ptab = NoTable
  /\ pres = NoPath

SpecRead == InitRead /\ [][Next]_vars

(***************************************************************************)
(* build_path on its own, over directory tables that need not be trees.    *)
(***************************************************************************)
\* "root", "mid", "leaf"
Root == << 114, 111, 111, 116 >>
Mid == << 109, 105, 100 >>
Leaf == << 108, 101, 97, 102 >>
PathName(k) == IF k = 1 THEN Root ELSE IF k = 2 THEN Mid ELSE IF k = 3 THEN Leaf
               ELSE << 96 + k >>

\* The ids and names of a table of n directories: ids in table order, against
\* it, and one past the name table; names all there, and the first one empty.
Namings(n) ==
  {[ids |-> [k \in 1..n |-> k - 1], names |-> [k \in 1..n |-> PathName(k)]],
   [ids |-> [k \in 1..n |-> n - k], names |-> [k \in 1..n |-> PathName(k)]],
   [ids |-> [k \in 1..n |-> k], names |-> [k \in 1..n |-> PathName(k)]],
   [ids |-> [k \in 1..n |-> k - 1],
    names |-> [k \in 1..n |-> IF k = 1 THEN << >> ELSE PathName(k)]]}

\* Tables of n directories with any parents in -2..n: -1 a root, 0..n-1 a
\* table position, -2 and n neither.
PathTables(n) ==
  {[dirs |-> [k \in 1..n |-> VfsDir(1000 + k, v.ids[k], parents[k], -1, 0)],
    dnames |-> v.names] :
     parents \in [1..n -> (-2)..n], v \in Namings(n)}

InitPath ==
  /\ \E n \in 1..MaxPathDirs : ptab \in PathTables(n)
  /\ pres = NoPath
  /\ ivfs = << >>
  /\ tree = EmptyTree
  /\ ovfs = << >>
  /\ tree2 = EmptyTree
  /\ pc = "path"
  /\ edits = 0
  /\ unpacked = NoUnpack
  /\ packed = NoPack
  /\ checked = NoUnpack

\* build_path(dirs, dnames, dirs[i - 1])
ResolvePath ==
  /\ pc = "path"
  /\ \E i \in 1..Len(ptab.dirs) :
       \E res \in {build_path(ptab.dirs, ptab.dnames, ptab.dirs[i])} :
         pres' = [dir |-> i, err |-> res.err, path |-> res.path, hops |-> res.hops]
  /\ UNCHANGED << ivfs, tree, ovfs, tree2, pc, edits, unpacked, packed, checked, ptab >>

NextPath == ResolvePath

SpecPath == InitPath /\ [][NextPath]_vars

(***************************************************************************)
(* Properties.                                                             *)
(***************************************************************************)
\* What the properties read off a state.
Ran(run) == run.cmd # "none"
Positions(table) == 1..Len(table)
NoTables(r) ==
  r.dirs = << >> /\ r.files = << >> /\ r.blob = << >> /\ r.fnames = << >>
    /\ r.dnames = << >>

\* A file record without the two fields a repack recomputes.
Kept(f) == [hash |-> f.hash, id |-> f.id, type |-> f.type, dir |-> f.dir]

\* The sum of the size fields of the records at the positions in S.
RECURSIVE SumSizes(_, _)
SumSizes(files, S) ==
  IF S = {} THEN 0
  ELSE LET i == CHOOSE j \in S : TRUE
       IN  files[i].size + SumSizes(files, S \ {i})

\* The unsigned little-endian number at byte offset off of a stream that holds
\* those four bytes.
IntAt(s, off) == s[off + 1] + 256 * s[off + 2] + 65536 * s[off + 3] + 16777216 * s[off + 4]

\* The offset of the blob end field in an archive of nd directory and nf file
\* records, by the format's layout: magic, count, 20-byte records, count,
\* 24-byte records.
BlobEndAt(nd, nf) == 4 + 4 + 20 * nd + 4 + 24 * nf

\* C1: Round-trip identity.  Unpacking a well-formed archive A (one unpack
\* accepts) and repacking the untouched tree gives an archive B that repacks
\* without error, whose directory table, file table (offset and size aside)
\* and name tables are A's, and that unpacks without error to the bytes
\* extracted from A, record by record.
RoundTripIdentity ==
  (unpacked.err = "ok" /\ edits = 0) =>
    /\ Ran(packed) => packed.err = "ok"
    /\ Ran(checked) =>
         /\ checked.err = "ok"
         /\ checked.read.dirs = unpacked.read.dirs
         /\ Len(checked.read.files) = Len(unpacked.read.files)
         /\ \A i \in Positions(checked.read.files) :
              Kept(checked.read.files[i]) = Kept(unpacked.read.files[i])
         /\ checked.read.fnames = unpacked.read.fnames
         /\ checked.read.dnames = unpacked.read.dnames
         /\ checked.out = unpacked.out

\* C2 as stated: after the packing loop every record's offset is the sum of
\* the sizes of the records with a smaller id, and the blob is as long as all
\* sizes together.
OffsetsBySmallerId ==
  packed.err = "ok" =>
    /\ \A i \in Positions(packed.files) :
         packed.files[i].offset =
           SumSizes(packed.files,
                    {j \in Positions(packed.files) : packed.files[j].id < packed.files[i].id})
    /\ Len(packed.blob) = SumSizes(packed.files, Positions(packed.files))

\* C2, amended: after the packing loop every record's offset is the sum of
\* the sizes of the records packed before it, those with a smaller id and
\* those with the same id that stand earlier in the table, and the blob is as
\* long as all sizes together.
OffsetsByPackingOrder ==
  packed.err = "ok" =>
    /\ \A i \in Positions(packed.files) :
         packed.files[i].offset =
           SumSizes(packed.files,
                    {j \in Positions(packed.files) :
                       \/ packed.files[j].id < packed.files[i].id
                       \/ packed.files[j].id = packed.files[i].id /\ j < i})
    /\ Len(packed.blob) = SumSizes(packed.files, Positions(packed.files))

\* A repack of two records of one id, the second placed after the first's
\* bytes, and a repack whose table order is against id order.
OffsetsWitness ==
  /\ packed.err = "ok"
  /\ Len(packed.files) = 2
  /\ packed.files[1].id = packed.files[2].id
  /\ packed.files[1].size > 0
  /\ packed.files[2].offset = packed.files[1].size

\* The count fields before the two name tables of a written archive, given
\* its tables.
FnameCountOf(s, nd, nf) == IntAt(s, IntAt(s, BlobEndAt(nd, nf)))
DnameCountOf(s, nd, nf, fnames) ==
  IntAt(s, IntAt(s, BlobEndAt(nd, nf)) + 4
             + SumSizes([i \in Positions(fnames) |-> [size |-> 4 + Len(fnames[i])]],
                        Positions(fnames)))

\* What C3 says of the writer and of its example: write_vfs prefixes the name
\* tables with the file count and the directory count whatever the tables hold,
\* and the archive written with two file records and one file name reads back
\* with two file names.
WriterCouplesCounts ==
  /\ packed.err = "ok" =>
       /\ FnameCountOf(ovfs, Len(packed.read.dirs), Len(packed.files))
            = Len(packed.files)
       /\ DnameCountOf(ovfs, Len(packed.read.dirs), Len(packed.files), packed.read.fnames)
            = Len(packed.read.dirs)
  /\ (ivfs = CouplingExample /\ Ran(unpacked)) =>
       /\ unpacked.read.err = "ok"
       /\ Len(unpacked.read.files) = 2
       /\ Len(unpacked.read.fnames) = 2

\* C3 as stated: the above, and the reader never takes the number of names
\* from a count of the name table's own: whatever archive it reads whole, it
\* reads as many file names as file records and as many directory names as
\* directory records.
NameCountCoupling ==
  /\ WriterCouplesCounts
  /\ (Ran(unpacked) /\ unpacked.read.err = "ok" /\ ~unpacked.read.cur.short) =>
       /\ Len(unpacked.read.fnames) = Len(unpacked.read.files)
       /\ Len(unpacked.read.dnames) = Len(unpacked.read.dirs)

\* C3, amended: the writer couples the counts, and the reader reads as many
\* file names as the count field stored before the file-name table says, be
\* it the file count or not.
NameCountStored ==
  /\ WriterCouplesCounts
  /\ (Ran(unpacked) /\ unpacked.read.err = "ok" /\ ~unpacked.read.cur.short) =>
       Len(unpacked.read.fnames)
         = FnameCountOf(ivfs, Len(unpacked.read.dirs), Len(unpacked.read.files))
  /\ (ivfs = OwnCountExample /\ Ran(unpacked)) =>
       /\ unpacked.read.err = "ok"
       /\ Len(unpacked.read.files) = 2
       /\ Len(unpacked.read.fnames) = 1

\* The archive written with two file records and one file name, read back.
NameCountWitness ==
  /\ ivfs = CouplingExample
  /\ Ran(unpacked)
  /\ Len(unpacked.read.files) = 2
  /\ Len(unpacked.read.fnames) = 2

\* C4: Magic rejection.  On a stream whose first four bytes are not b'VFS2',
\* shorter streams included, read_vfs raises the bad-magic error, returns no
\* tables, and has made its one read, of the magic: the cursor is not past
\* offset 4 and nothing is unpacked.
MagicRejection ==
  (Ran(unpacked) /\ Slice(ivfs, 0, 4) # Magic) =>
    /\ unpacked.err = "BadMagic"
    /\ unpacked.read.err = "BadMagic"
    /\ NoTables(unpacked.read)
    /\ unpacked.read.cur.reads = 1
    /\ unpacked.read.cur.pos = Min(4, Len(ivfs))
    /\ tree = EmptyTree
    /\ pc = "failed"

\* A whole archive with a wrong magic, rejected.
MagicWitness ==
  /\ Ran(unpacked)
  /\ Len(ivfs) > 4
  /\ Slice(ivfs, 0, 4) # Magic
  /\ unpacked.err = "BadMagic"
\* The table positions from a root down to position i, following parent links
\* for at most fuel hops.
RECURSIVE Ancestry(_, _, _)
Ancestry(dirs, i, fuel) ==
  IF dirs[i].parent = -1 \/ fuel = 0 THEN << i >>
  ELSE Append(Ancestry(dirs, dirs[i].parent + 1, fuel - 1), i)

\* Parent links in range and acyclic, ids naming an entry of the name table.
LinksInRange(tab) ==
  \A k \in Positions(tab.dirs) :
    /\ tab.dirs[k].parent \in {-1} \cup (0..(Len(tab.dirs) - 1))
    /\ tab.dirs[k].id \in 0..(Len(tab.dnames) - 1)
Acyclic(tab) ==
  \A k \in Positions(tab.dirs) :
    tab.dirs[Ancestry(tab.dirs, k, Len(tab.dirs))[1]].parent = -1

\* The names of the directories of a chain, joined as pathlib joins them: an
\* empty name adds no component.
NonEmpty(name) == name # << >>
NamesAlong(tab, chain) ==
  SelectSeq([k \in 1..Len(chain) |-> tab.dnames[tab.dirs[chain[k]].id + 1]], NonEmpty)

\* The chain root -> mid -> leaf.
ChainExample ==
  [dirs |-> << VfsDir(1001, 0, -1, -1, 0), VfsDir(1002, 1, 0, -1, 0),
               VfsDir(1003, 2, 1, -1, 0) >>,
   dnames |-> << Root, Mid, Leaf >>]

\* C5: Path reconstruction.  For a directory table whose parent links are in
\* range and acyclic, and any directory d of it, build_path returns, after at
\* most len(dirs) parent hops, the names dnames[x.id] of d's ancestors joined
\* from the root down to d; for the chain root -> mid -> leaf the path of
\* leaf is root/mid/leaf.
PathReconstruction ==
  /\ (pres.err # "none" /\ LinksInRange(ptab) /\ Acyclic(ptab)) =>
       /\ pres.err = "ok"
       /\ pres.hops = Len(Ancestry(ptab.dirs, pres.dir, Len(ptab.dirs))) - 1
       /\ pres.hops <= Len(ptab.dirs)
       /\ pres.path = NamesAlong(ptab, Ancestry(ptab.dirs, pres.dir, Len(ptab.dirs)))
  /\ (pres.err # "none" /\ ptab = ChainExample /\ pres.dir = 3) =>
       pres.path = << Root, Mid, Leaf >>

\* The path of leaf in the chain root -> mid -> leaf, resolved.
PathWitness ==
  /\ ptab = ChainExample
  /\ pres.dir = 3
  /\ pres.err = "ok"
  /\ pres.hops = 2
  /\ pres.path = << Root, Mid, Leaf >>

\* Where the tree holds the file of a record, by the tables r.
SourcePath(r, f) ==
  PathJoin(build_path(r.dirs, r.dnames, At(r.dirs, f.dir)).path, At(r.fnames, f.id))

\* C6: Compression round trip.  For every record of type 2 and whatever the
\* source file holds, the slice compress() stores in the blob starts with the
\* 4-byte little-endian length of the source bytes, and decompress() of the
\* packed archive writes for that record exactly the source bytes.
CompressionRoundTrip ==
  packed.err = "ok" =>
    \A i \in Positions(packed.files) :
      packed.files[i].type = 2 =>
        /\ packed.files[i].size >= 4
        /\ packed.files[i].offset + packed.files[i].size <= Len(packed.blob)
        /\ IntAt(packed.blob, packed.files[i].offset)
             = Len(FileData(tree, SourcePath(packed.read, packed.files[i])))
        /\ (Ran(checked) /\ Len(checked.out) >= i) =>
             checked.out[i] = FileData(tree, SourcePath(packed.read, packed.files[i]))
        /\ (Ran(checked) /\ checked.err = "ok") =>
             FileData(tree2, SourcePath(packed.read, packed.files[i]))
               = FileData(tree, SourcePath(packed.read, packed.files[i]))

\* A compressed record whose source file was rewritten before packing, packed
\* and unpacked again.
CompressionWitness ==
  /\ edits = 1
  /\ packed.err = "ok"
  /\ checked.err = "ok"
  /\ \E i \in Positions(packed.files) :
       /\ packed.files[i].type = 2
       /\ checked.out[i] # << >>
       /\ checked.out[i] # unpacked.out[i]

\* C7: Truncated reads are errors.  When the stream runs out under a read of
\* read_int or read_str (fewer bytes remain than the read asks for), read_vfs
\* fails: it never returns tables built from missing bytes.
TruncatedReadsFail ==
  (Ran(unpacked) /\ unpacked.read.cur.short) => unpacked.read.err # "ok"

\* The header fields of a stream that holds its header whole: the counts, and
\* the blob length read_vfs computes, the stored end offset less the position
\* behind that field.
DirCountOf(s) == IntAt(s, 4)
FileCountOf(s) == IntAt(s, 8 + 20 * DirCountOf(s))
HeaderWhole(s) ==
  /\ Len(s) >= 8
  /\ DirCountOf(s) <= MaxCount
  /\ Len(s) >= 12 + 20 * DirCountOf(s)
  /\ FileCountOf(s) <= MaxCount
  /\ Len(s) >= BlobEndAt(DirCountOf(s), FileCountOf(s)) + 4
BlobLengthOf(s) ==
  IntAt(s, BlobEndAt(DirCountOf(s), FileCountOf(s)))
    - (BlobEndAt(DirCountOf(s), FileCountOf(s)) + 4)

\* C8: Negative blob length is rejected.  When the stored blob end offset is
\* smaller than the position behind it (-1 included), read_vfs fails with the
\* length error and returns no blob and no name tables; otherwise the blob is
\* the bytes that follow, as many as the difference (or as are left).
NegativeBlobLengthRejected ==
  (Ran(unpacked) /\ Slice(ivfs, 0, 4) = Magic /\ HeaderWhole(ivfs)) =>
    IF BlobLengthOf(ivfs) < 0
      THEN /\ unpacked.read.err = "ValueError"
           /\ unpacked.read.blob = << >>
           /\ unpacked.read.fnames = << >>
           /\ unpacked.read.dnames = << >>
      ELSE unpacked.read.err \in {"ok", "UnicodeDecodeError", "Unbounded"} =>
             unpacked.read.blob
               = Slice(ivfs, BlobEndAt(DirCountOf(ivfs), FileCountOf(ivfs)) + 4,
                       IntAt(ivfs, BlobEndAt(DirCountOf(ivfs), FileCountOf(ivfs))))

\* C9: Out-of-range references are errors.  When the parent of the directory
\* being resolved is neither -1 nor a position of the table (-2, say),
\* build_path fails with IndexError and resolves it to no table entry.
OutOfRangeIsError ==
  (pres.err # "none"
     /\ ptab.dirs[pres.dir].parent \notin ({-1} \cup (0..(Len(ptab.dirs) - 1)))) =>
    pres.err = "IndexError"

\* C10: Unpack size check.  For every record of nonzero type that decompress()
\* wrote a file for, the bytes written are as many as the first 4 bytes of the
\* record's slice say; a record of type 0 is written as its slice.
UnpackSizeCheck ==
  Ran(unpacked) =>
    \A i \in Positions(unpacked.out) :
      IF unpacked.read.files[i].type # 0
        THEN Len(unpacked.out[i])
               = IntAt(unpacked.read.blob, unpacked.read.files[i].offset)
        ELSE unpacked.out[i]
               = BlobSlice(unpacked.read.blob, unpacked.read.files[i].offset,
                           unpacked.read.files[i].size)
=============================================================================
